---- MODULE Spec2Model ----
(***************************************************************************)
(* The three lesson-import scripts of server/:                             *)
(*   CR  = complete-lesson-replacement.py  (ids read from the CSV)         *)
(*   P68 = process-68-lessons.py           (ids read from the CSV)         *)
(*   UPD = update-lessons-from-csv.py      (ids from the row position)     *)
(* A run reads one CSV, builds the lesson list and writes the content      *)
(* store (server/course-content.json) and the two copies of the generated  *)
(* mapping module (server/lesson-mapping.ts, client/src/lib/...).          *)
(*                                                                         *)
(* A string is a sequence of one-character strings.  The lesson fields     *)
(* courseId and coverImage are derived per lesson from longId / title and  *)
(* read by no property below; the lesson records here leave them out.      *)
(* The backup file of CR and the summary file of P68 are read by nothing:  *)
(* of the steps that write them only the outcome is kept.                  *)
(***************************************************************************)
EXTENDS Integers, Sequences, FiniteSets, TLC

\* Python's None: the value csv.DictReader gives the missing cells of a short row.
None == <<"<None>">>

(***************************************************************************)
(* State.                                                                  *)
(***************************************************************************)
VARIABLES
    variant,          \* which script runs
    csv,              \* the rows of the input file
    run,              \* number of the current run, 0 before the first
    pc,               \* where main() is
    clock,            \* datetime.now()
    rows_read,        \* rows consumed by the parse loop
    lessons,          \* the lesson list
    lesson_mappings,  \* CR: the mapping list of parse_csv_lessons
    processed_count,  \* CR
    skipped_count,    \* CR
    parse_end,        \* how the parse loop ended: "eof", "row_raise", "io_error"
    ts_content,       \* the generated module text
    store,            \* server/course-content.json
    serverTs,         \* server/lesson-mapping.ts
    clientTs,         \* client/src/lib/lesson-mapping.ts
    touched,          \* the output files this run has opened for writing
    backup_result,    \* CR: what create_backup returned
    failed_at,        \* the step whose exception ended the run
    prev,             \* the outputs as the previous run left them
    desc_policy,      \* description policy under test
    desc_in,          \* its source string
    desc_out,         \* its result
    detect_in,        \* the argument of detectLessonIdFormat under test
    detect_out        \* its result

vars == <<variant, csv, run, pc, clock, rows_read, lessons, lesson_mappings,
          processed_count, skipped_count, parse_end, ts_content, store,
          serverTs, clientTs, touched, backup_result, failed_at, prev,
          desc_policy, desc_in, desc_out, detect_in, detect_out>>

runVars == <<variant, csv>>
descVars == <<desc_policy, desc_in, desc_out, detect_in, detect_out>>
parseVars == <<rows_read, lessons, lesson_mappings, processed_count, skipped_count, parse_end>>
fileVars == <<store, serverTs, clientTs, touched>>

(***************************************************************************)
(* Bounds of the model.                                                    *)
(***************************************************************************)
MaxRows == 2
MaxRuns == 2
\* description sources of length 0 .. 300 + MaxOver are tried
MaxOver == 4

(***************************************************************************)
(* Program constants.                                                      *)
(***************************************************************************)
DescLimitCR == 300
DescKeepCR == 297
DescLimitP68 == 300
DescLimitUPD == 200
MinLongLength == 10

(***************************************************************************)
(* Characters and Python string primitives.                                *)
(***************************************************************************)
IsSpace(c) == c \in {" ", "\n", "\t"}

Digits == <<"0", "1", "2", "3", "4", "5", "6", "7", "8", "9">>

IsDigit(c) == \E d \in 1..10 : Digits[d] = c

DigitVal(c) == (CHOOSE d \in 1..10 : Digits[d] = c) - 1

\* `not x` of Python for a cell: None and "" are falsy
Truthy(v) == v # None /\ v # <<>>

\* str.lstrip()
LStrip(s) ==
    IF \A k \in 1..Len(s) : IsSpace(s[k]) THEN <<>>
    ELSE LET k == CHOOSE k \in 1..Len(s) :
                      ~IsSpace(s[k]) /\ \A j \in 1..(k - 1) : IsSpace(s[j])
         IN  SubSeq(s, k, Len(s))

\* str.rstrip()
RStrip(s) ==
    IF \A k \in 1..Len(s) : IsSpace(s[k]) THEN <<>>
    ELSE LET k == CHOOSE k \in 1..Len(s) :
                      ~IsSpace(s[k]) /\ \A j \in (k + 1)..Len(s) : IsSpace(s[j])
         IN  SubSeq(s, 1, k)

\* str.strip()
Strip(s) == LStrip(RStrip(s))

\* the positions at which sub occurs in s
Occurrences(s, sub) ==
    {k \in 1..(Len(s) - Len(sub) + 1) : SubSeq(s, k, k + Len(sub) - 1) = sub}

\* str.replace(old, new): left to right, non-overlapping
RECURSIVE Replace(_, _, _)
Replace(s, old, new) ==
    IF Occurrences(s, old) = {} THEN s
    ELSE LET k == CHOOSE k \in Occurrences(s, old) :
                      \A j \in Occurrences(s, old) : k <= j
         IN  SubSeq(s, 1, k - 1) \o new
                 \o Replace(SubSeq(s, k + Len(old), Len(s)), old, new)

\* str.split(sep) for a one-character separator
RECURSIVE Split(_, _)
Split(s, sep) ==
    IF \A i \in 1..Len(s) : s[i] # sep THEN <<s>>
    ELSE LET k == CHOOSE i \in 1..Len(s) :
                      s[i] = sep /\ \A j \in 1..(i - 1) : s[j] # sep
         IN  <<SubSeq(s, 1, k - 1)>> \o Split(SubSeq(s, k + 1, Len(s)), sep)

\* sep.join(parts)
RECURSIVE Join(_, _)
Join(parts, sep) ==
    IF Len(parts) = 0 THEN <<>>
    ELSE IF Len(parts) = 1 THEN parts[1]
    ELSE parts[1] \o sep \o Join(Tail(parts), sep)

\* `sub in s` of Python, s.includes(sub) of JavaScript
Contains(s, sub) ==
    \E k \in 0..(Len(s) - Len(sub)) : SubSeq(s, k + 1, k + Len(sub)) = sub

\* s[:n]
Prefix(s, n) == SubSeq(s, 1, IF n < Len(s) THEN n ELSE Len(s))

\* the digits of a string of digits and single underscores, as a number
RECURSIVE DigitsValue(_, _)
DigitsValue(s, acc) ==
    IF s = <<>> THEN acc
    ELSE IF Head(s) = "_" THEN DigitsValue(Tail(s), acc)
    ELSE DigitsValue(Tail(s), 10 * acc + DigitVal(Head(s)))

\* int(s) accepts: surrounding whitespace, an optional sign, digits with single
\* underscores between them
IntBodyOk(b) ==
    /\ b # <<>>
    /\ IsDigit(b[1]) /\ IsDigit(b[Len(b)])
    /\ \A i \in 1..Len(b) : IsDigit(b[i]) \/ b[i] = "_"
    /\ \A i \in 1..(Len(b) - 1) : ~(b[i] = "_" /\ b[i + 1] = "_")

IntSigned(s) == s # <<>> /\ Head(s) \in {"-", "+"}

IntBody(s) == IF IntSigned(Strip(s)) THEN Tail(Strip(s)) ELSE Strip(s)

\* int(s) does not raise ValueError
PyIntOk(s) == IntBodyOk(IntBody(s))

\* int(s)
PyInt(s) ==
    IF Strip(s) # <<>> /\ Head(Strip(s)) = "-"
    THEN 0 - DigitsValue(IntBody(s), 0)
    ELSE DigitsValue(IntBody(s), 0)

\* the decimal text of an integer: what json.dumps writes for shortId, and
\* String(shortId) of JavaScript
RECURSIVE NatToStr(_)
NatToStr(n) ==
    IF n < 10 THEN <<Digits[n + 1]>>
    ELSE NatToStr(n \div 10) \o <<Digits[(n % 10) + 1]>>

IntToStr(n) == IF n < 0 THEN <<"-">> \o NatToStr(0 - n) ELSE NatToStr(n)

(***************************************************************************)
(* Text normalisers.                                                       *)
(***************************************************************************)
\* complete-lesson-replacement.py clean_text
clean_text_CR(text) ==
    IF ~Truthy(text) THEN <<>>
    ELSE LET lines == Split(Replace(text, <<"\"", "\"">>, <<"\"">>), "\n")
         IN  Join([i \in 1..Len(lines) |-> RStrip(lines[i])], <<"\n">>)

\* re.sub(r'\s+', ' ', s)
RECURSIVE CollapseWhitespace(_)
CollapseWhitespace(s) ==
    IF \A k \in 1..Len(s) : ~IsSpace(s[k]) THEN s
    ELSE LET k == CHOOSE k \in 1..Len(s) :
                      IsSpace(s[k]) /\ \A j \in 1..(k - 1) : ~IsSpace(s[j])
         IN  SubSeq(s, 1, k - 1) \o <<" ">>
                 \o CollapseWhitespace(LStrip(SubSeq(s, k, Len(s))))

\* process-68-lessons.py clean_text
clean_text_P68(text) ==
    IF ~Truthy(text) THEN <<>>
    ELSE Replace(Replace(CollapseWhitespace(Strip(text)),
                         <<"\"", "\"">>, <<"\"">>),
                 <<"'", "'">>, <<"'">>)

\* process-68-lessons.py create_description
create_description(content) ==
    IF ~Truthy(content) THEN <<>>
    ELSE LET description == clean_text_P68(content)
         IN  IF Len(description) > DescLimitP68
             THEN Prefix(description, DescLimitP68) \o <<".", ".", ".">>
             ELSE description

\* complete-lesson-replacement.py lines 70-72, on the cleaned description
truncate_description_CR(description) ==
    IF Len(description) > DescLimitCR
    THEN Prefix(description, DescKeepCR) \o <<".", ".", ".">>
    ELSE description

\* the whitespace run a string starts with
RECURSIVE SpaceRunLen(_)
SpaceRunLen(s) ==
    IF s # <<>> /\ IsSpace(Head(s)) THEN 1 + SpaceRunLen(Tail(s)) ELSE 0

\* re.sub(r'\n\s*\n\s*\n+', '\n\n', s): a match starts at a newline whose
\* whitespace run holds three newlines or more, and ends at the run's last one
RECURSIVE CollapseBlankLines(_)
CollapseBlankLines(s) ==
    IF s = <<>> THEN <<>>
    ELSE LET n   == SpaceRunLen(s)
             nls == {i \in 1..n : s[i] = "\n"}
         IN  IF Head(s) = "\n" /\ Cardinality(nls) >= 3
             THEN LET last == CHOOSE i \in nls : \A j \in nls : j <= i
                  IN  <<"\n", "\n">> \o CollapseBlankLines(SubSeq(s, last + 1, Len(s)))
             ELSE <<Head(s)>> \o CollapseBlankLines(Tail(s))

\* the string after its leading spaces and tabs
RECURSIVE SkipBlanks(_)
SkipBlanks(s) ==
    IF s # <<>> /\ Head(s) \in {" ", "\t"} THEN SkipBlanks(Tail(s)) ELSE s

\* re.sub(r'[ \t]+', ' ', s)
RECURSIVE CollapseBlanks(_)
CollapseBlanks(s) ==
    IF s = <<>> THEN <<>>
    ELSE IF Head(s) \in {" ", "\t"} THEN <<" ">> \o CollapseBlanks(SkipBlanks(s))
    ELSE <<Head(s)>> \o CollapseBlanks(Tail(s))

\* update-lessons-from-csv.py clean_text
clean_text_UPD(text) ==
    IF ~Truthy(text) THEN <<>>
    ELSE Strip(CollapseBlanks(CollapseBlankLines(text)))

(***************************************************************************)
(* The generated TypeScript module: LESSON_MAPPINGS and its functions.     *)
(* JavaScript results are records: a number, null, or a thrown error.      *)
(***************************************************************************)
JsNum(n) == [kind |-> "num", val |-> n]
JsNull == [kind |-> "null", val |-> 0]
JsThrow == [kind |-> "throw", val |-> 0]

\* json.dumps of a str: the text between the quotes of the literal
RECURSIVE JsonDumpsStr(_)
JsonDumpsStr(s) ==
    IF s = <<>> THEN <<>>
    ELSE (CASE Head(s) = "\"" -> <<"\\", "\"">>
            [] Head(s) = "\\" -> <<"\\", "\\">>
            [] Head(s) = "\n" -> <<"\\", "n">>
            [] Head(s) = "\t" -> <<"\\", "t">>
            [] OTHER -> <<Head(s)>>) \o JsonDumpsStr(Tail(s))

\* the string value of a TypeScript string literal with that text
RECURSIVE JsStringValue(_)
JsStringValue(t) ==
    IF t = <<>> THEN <<>>
    ELSE IF Head(t) = "\\" /\ Len(t) > 1
         THEN (CASE t[2] = "n" -> <<"\n">>
                 [] t[2] = "t" -> <<"\t">>
                 [] OTHER -> <<t[2]>>) \o JsStringValue(SubSeq(t, 3, Len(t)))
         ELSE <<Head(t)>> \o JsStringValue(Tail(t))

\* the LESSON_MAPPINGS array the TypeScript module holds, read back from the
\* JSON text that json.dumps(mappings) embedded in it
LESSON_MAPPINGS(mappings) ==
    [i \in 1..Len(mappings) |->
        [shortId |-> PyInt(IntToStr(mappings[i].shortId)),
         longId  |-> JsStringValue(JsonDumpsStr(mappings[i].longId)),
         title   |-> JsStringValue(JsonDumpsStr(mappings[i].title))]]

\* Array.prototype.find: the index of the first element satisfying P, 0 if none
FindFirst(M, P(_)) ==
    IF \E i \in 1..Len(M) : P(M[i])
    THEN CHOOSE i \in 1..Len(M) : P(M[i]) /\ \A j \in 1..(i - 1) : ~P(M[j])
    ELSE 0

HexDigits == <<"0", "1", "2", "3", "4", "5", "6", "7", "8", "9",
               "a", "b", "c", "d", "e", "f", "A", "B", "C", "D", "E", "F">>

IsHex(c) == \E d \in 1..22 : HexDigits[d] = c

HexVal(c) ==
    LET d == CHOOSE k \in 1..22 : HexDigits[k] = c
    IN  IF d <= 16 THEN d - 1 ELSE d - 7

\* the characters of code 32 .. 126 (the grave accent, code 96, by its code)
Ascii == <<
    " ", "!", "\"", "#", "$", "%", "&", "'", "(", ")", "*", "+",
    ",", "-", ".", "/", "0", "1", "2", "3", "4", "5", "6", "7",
    "8", "9", ":", ";", "<", "=", ">", "?", "@", "A", "B", "C",
    "D", "E", "F", "G", "H", "I", "J", "K", "L", "M", "N", "O",
    "P", "Q", "R", "S", "T", "U", "V", "W", "X", "Y", "Z", "[",
    "\\", "]", "^", "_", "\\x96", "a", "b", "c", "d", "e", "f", "g",
    "h", "i", "j", "k", "l", "m", "n", "o", "p", "q", "r", "s",
    "t", "u", "v", "w", "x", "y", "z", "{", "|", "}", "~">>

\* String.fromCharCode for a code below 128
CharOfCode(b) ==
    IF b >= 32 /\ b <= 126 THEN Ascii[b - 31]
    ELSE IF b = 10 THEN "\n"
    ELSE IF b = 9 THEN "\t"
    ELSE "\\x" \o ToString(b)

\* the byte a %XX escape at the head of s stands for, -1 when s does not start
\* with a well-formed escape
EscapeByte(s) ==
    IF Len(s) >= 3 /\ s[1] = "%" /\ IsHex(s[2]) /\ IsHex(s[3])
    THEN 16 * HexVal(s[2]) + HexVal(s[3])
    ELSE 0 - 1

\* the number of continuation bytes a UTF-8 lead byte announces, -1 for a byte
\* that cannot lead
Continuations(b) ==
    IF b >= 194 /\ b <= 223 THEN 1
    ELSE IF b >= 224 /\ b <= 239 THEN 2
    ELSE IF b >= 240 /\ b <= 244 THEN 3
    ELSE 0 - 1

\* decodeURIComponent: <<"throw">> stands for its URIError.  A multi-byte
\* sequence decodes to one character named by its lead byte and length.
URIError == <<"<URIError>">>

RECURSIVE decodeURIComponent(_)
decodeURIComponent(s) ==
    IF s = <<>> THEN <<>>
    ELSE IF Head(s) # "%"
         THEN LET rest == decodeURIComponent(Tail(s))
              IN  IF rest = URIError THEN URIError ELSE <<Head(s)>> \o rest
    ELSE LET b == EscapeByte(s)
         IN  IF b < 0 THEN URIError
             ELSE IF b < 128
                  THEN LET rest == decodeURIComponent(SubSeq(s, 4, Len(s)))
                       IN  IF rest = URIError THEN URIError
                           ELSE <<CharOfCode(b)>> \o rest
             ELSE LET n == Continuations(b)
                  IN  IF n < 0 \/ Len(s) < 3 + 3 * n THEN URIError
                      ELSE IF \E k \in 1..n :
                                 LET c == EscapeByte(SubSeq(s, 3 * k + 1, 3 * k + 3))
                                 IN  c < 128 \/ c > 191
                           THEN URIError
                      ELSE LET rest == decodeURIComponent(
                                           SubSeq(s, 4 + 3 * n, Len(s)))
                           IN  IF rest = URIError THEN URIError
                               ELSE <<"\\u" \o ToString(b) \o "+" \o ToString(n)>>
                                    \o rest

\* /^\d+$/.test(lessonId)
AllDigits(s) == s # <<>> /\ \A i \in 1..Len(s) : IsDigit(s[i])

\* detectLessonIdFormat of complete-lesson-replacement.py
detectLessonIdFormat_CR(lessonId) ==
    IF AllDigits(lessonId) THEN "short"
    ELSE IF Contains(lessonId, <<"_">>) /\ Len(lessonId) > MinLongLength THEN "long"
    ELSE "invalid"

\* detectLessonIdFormat of process-68-lessons.py and update-lessons-from-csv.py
detectLessonIdFormat_P68(lessonId) ==
    IF AllDigits(lessonId) THEN "short"
    ELSE IF Contains(lessonId, <<"_">>) \/ Len(lessonId) > MinLongLength THEN "long"
    ELSE "invalid"

detectLessonIdFormat(v, lessonId) ==
    IF v = "CR" THEN detectLessonIdFormat_CR(lessonId)
    ELSE detectLessonIdFormat_P68(lessonId)

\* mapLongIdToShortId of complete-lesson-replacement.py and
\* update-lessons-from-csv.py: exact match
mapLongIdToShortId_exact(M, longId) ==
    LET Exact(m) == m.longId = longId
        k == FindFirst(M, Exact)
    IN  IF k = 0 THEN JsNull ELSE JsNum(M[k].shortId)

\* mapLongIdToShortId of process-68-lessons.py: decode, exact match, then
\* substring match in either direction
mapLongIdToShortId_P68(M, longId) ==
    LET decoded == decodeURIComponent(longId)
        Exact(m) == m.longId = decoded
        Partial(m) == Contains(m.longId, decoded) \/ Contains(decoded, m.longId)
        k == FindFirst(M, Exact)
        p == FindFirst(M, Partial)
    IN  IF decoded = URIError THEN JsThrow
        ELSE IF k # 0 THEN JsNum(M[k].shortId)
        ELSE IF p # 0 THEN JsNum(M[p].shortId)
        ELSE JsNull

mapLongIdToShortId(v, M, longId) ==
    IF v = "P68" THEN mapLongIdToShortId_P68(M, longId)
    ELSE mapLongIdToShortId_exact(M, longId)

\* resolveLessonId, the same text in the three generated modules
resolveLessonId(v, M, lessonId) ==
    LET format == detectLessonIdFormat(v, lessonId)
    IN  IF format = "short" THEN JsNum(DigitsValue(lessonId, 0))
        ELSE IF format = "long" THEN mapLongIdToShortId(v, M, lessonId)
        ELSE JsNull

(***************************************************************************)
(* Row parsers.  A CSV row is what csv.DictReader yields: a function from  *)
(* the header's column names to cells, a cell being a string or None.      *)
(* A parser's result is a lesson, a skip (None / continue), or a raise.    *)
(* The field `row` of a lesson is the 1-based position of its source row:  *)
(* provenance kept for stating the properties, not a field of the program. *)
(***************************************************************************)
NoLesson == [row |-> 0, id |-> 0, longId |-> <<>>, title |-> <<>>,
             description |-> <<>>, content |-> <<>>]

Accepted(lesson) == [kind |-> "lesson", lesson |-> lesson]
Skipped == [kind |-> "skip", lesson |-> NoLesson]
Raised == [kind |-> "raise", lesson |-> NoLesson]

\* row[col] raises KeyError for a column the header lacks
HasCol(row, col) == col \in DOMAIN row

\* complete-lesson-replacement.py parse_csv_lessons, the body of the try
parse_row_CR(row, n) ==
    IF ~HasCol(row, "lesson_id_new") THEN Raised
    ELSE IF row["lesson_id_new"] = None THEN Raised
    ELSE IF ~PyIntOk(row["lesson_id_new"]) THEN Raised
    ELSE IF ~HasCol(row, "lesson_id") THEN Raised
    ELSE IF row["lesson_id"] = None THEN Raised
    ELSE IF ~HasCol(row, "title") THEN Raised
    ELSE IF ~HasCol(row, "description") THEN Raised
    ELSE IF ~HasCol(row, "text") THEN Raised
    ELSE LET lesson_id_new == PyInt(row["lesson_id_new"])
             lesson_id     == Strip(row["lesson_id"])
             title         == clean_text_CR(row["title"])
             description   == clean_text_CR(row["description"])
             text          == clean_text_CR(row["text"])
         IN  IF lesson_id = <<>> \/ title = <<>> THEN Skipped
             ELSE Accepted([row |-> n, id |-> lesson_id_new, longId |-> lesson_id,
                            title |-> title,
                            description |-> truncate_description_CR(description),
                            content |-> text])

\* process-68-lessons.py get_field_value
RECURSIVE get_field_value(_, _)
get_field_value(row, field_names) ==
    IF field_names = <<>> THEN None
    ELSE IF HasCol(row, Head(field_names)) /\ Truthy(row[Head(field_names)])
         THEN row[Head(field_names)]
         ELSE get_field_value(row, Tail(field_names))

\* process-68-lessons.py parse_lesson_row
parse_lesson_row_P68(row, n) ==
    LET lesson_id == get_field_value(row, <<"lesson_id_new", "id", "lesson_id">>)
        long_id   == get_field_value(row, <<"lesson_id", "long_id", "lesson_long_id">>)
        title     == get_field_value(row, <<"title", "lesson_title", "name">>)
        content   == get_field_value(row, <<"text", "description", "content">>)
    IN  IF ~Truthy(lesson_id) \/ ~Truthy(long_id) \/ ~Truthy(title) THEN Skipped
        ELSE IF ~PyIntOk(lesson_id) THEN Skipped
        ELSE Accepted([row |-> n, id |-> PyInt(lesson_id), longId |-> Strip(long_id),
                       title |-> clean_text_P68(title),
                       description |-> create_description(content),
                       content |-> clean_text_P68(content)])

\* row.get(col, '')
RowGet(row, col) == IF HasCol(row, col) THEN row[col] ELSE <<>>

\* the sequence id as the count of lessons accepted so far, plus one
sequence_id_of_accepted(idx) == Len(lessons) + 1

\* update-lessons-from-csv.py line 47: the sequence id handed to the row parser
sequence_id(idx) == idx + 1

\* update-lessons-from-csv.py parse_lesson_row; .strip() of None raises
parse_lesson_row_UPD(row, seq_id) ==
    IF \E col \in {"title", "legacy_id", "text", "short_description", "description"} :
           RowGet(row, col) = None
    THEN Raised
    ELSE LET title             == Strip(RowGet(row, "title"))
             legacy_id         == Strip(RowGet(row, "legacy_id"))
             text              == Strip(RowGet(row, "text"))
             short_description == Strip(RowGet(row, "short_description"))
             description       == Strip(RowGet(row, "description"))
             lesson_description ==
                 IF description # <<>> THEN description ELSE short_description
         IN  IF title = <<>> \/ legacy_id = <<>> \/ text = <<>> THEN Skipped
             ELSE Accepted([row |-> seq_id, id |-> seq_id, longId |-> legacy_id,
                            title |-> title,
                            description |->
                                IF Len(lesson_description) > DescLimitUPD
                                THEN Prefix(clean_text_UPD(lesson_description),
                                            DescLimitUPD) \o <<".", ".", ".">>
                                ELSE clean_text_UPD(lesson_description),
                            content |-> clean_text_UPD(text)])

\* the row parser of variant v on the row at 0-based position idx
parse_row(v, row, idx) ==
    IF v = "CR" THEN parse_row_CR(row, idx + 1)
    ELSE IF v = "P68" THEN parse_lesson_row_P68(row, idx + 1)
    ELSE parse_lesson_row_UPD(row, sequence_id(idx))

\* list.sort(key=lambda x: x[f]): stable, ascending
RECURSIVE InsertByKey(_, _, _)
InsertByKey(sorted, x, f) ==
    IF sorted = <<>> THEN <<x>>
    ELSE IF sorted[1][f] <= x[f]
         THEN <<sorted[1]>> \o InsertByKey(Tail(sorted), x, f)
         ELSE <<x>> \o sorted

\* a sort that leaves the list in row order
SortByKey_unsorted(s, f) == s

RECURSIVE SortByKey(_, _)
SortByKey(s, f) ==
    IF s = <<>> THEN <<>>
    ELSE InsertByKey(SortByKey(SubSeq(s, 1, Len(s) - 1), f), s[Len(s)], f)

\* the mapping entry of a lesson
MappingOf(lesson) ==
    [shortId |-> lesson.id, longId |-> lesson.longId, title |-> lesson.title]

MappingsOf(ls) == [k \in 1..Len(ls) |-> MappingOf(ls[k])]

(***************************************************************************)
(* Input CSVs, and the initial state of a run.                             *)
(***************************************************************************)
sIntro == <<"I", "n", "t", "r", "o">>
sTwo   == <<"T", "w", "o">>
sBody  == <<"B", "o", "d", "y">>
\* "topic__u_01": holds the delimiter and is longer than MinLongLength
sLongA == <<"t", "o", "p", "i", "c", "_", "_", "u", "_", "0", "1">>
\* "topic__u_0": holds the delimiter, of length MinLongLength, a prefix of sLongA
sLongB == <<"t", "o", "p", "i", "c", "_", "_", "u", "_", "0">>
\* "abc": no delimiter, short
sAbc   == <<"a", "b", "c">>
\* "12": digits only
sNum   == <<"1", "2">>
\* a description with a doubled quote and a trailing blank
sDesc  == <<"s", "a", "y", " ", "\"", "\"", "h", "i", "\"", "\"", " ">>

Row(id, long, title, description, text) ==
    [lesson_id_new |-> id, lesson_id |-> long, legacy_id |-> long,
     title |-> title, description |-> description, text |-> text]

RowKinds == <<
    \* 1: a valid row
    Row(<<"5">>, sLongA, sIntro, sDesc, sBody),
    \* 2: a second valid row, its long id a prefix of the first one's
    Row(<<"7">>, sLongB, sTwo, <<>>, sBody),
    \* 3: a valid row that repeats id 5, with a short long id
    Row(<<"5">>, sAbc, sTwo, <<>>, sBody),
    \* 4: a non-numeric id
    Row(<<"x">>, sLongA, sIntro, <<>>, sBody),
    \* 5: a whitespace-only title
    Row(<<"9">>, sLongA, <<" ">>, <<>>, sBody),
    \* 6: a short row: the cells after legacy_id are missing
    Row(<<"3">>, sLongA, None, None, None),
    \* 7: an empty text, a negative id, a long id of digits
    Row(<<"-", "8">>, sNum, sIntro, sDesc, <<>>) >>

NumRowKinds == Len(RowKinds)

FullHeader ==
    {"lesson_id_new", "lesson_id", "legacy_id", "title", "description", "text"}

\* the rows that are valid under every script
ValidKinds == {1, 2}

CsvOf(kinds, header) ==
    [k \in 1..Len(kinds) |-> [c \in header |-> RowKinds[kinds[k]][c]]]

KindSeqs(kindSet) == UNION {[1..n -> kindSet] : n \in 0..MaxRows}

\* the rows tried under a header that has no lesson_id_new column
NoIdKinds == {1, 7}

\* the CSVs tried: every row kind under the full header, the valid rows under
\* a header that has no title column, and a valid row and the row with the
\* long id of digits under a header that has no lesson_id_new column
Csvs ==
    {CsvOf(kinds, FullHeader) : kinds \in KindSeqs(1..NumRowKinds)}
    \cup {CsvOf(kinds, FullHeader \ {"title"}) : kinds \in KindSeqs(ValidKinds)}
    \cup {CsvOf(kinds, FullHeader \ {"lesson_id_new"}) :
              kinds \in KindSeqs(NoIdKinds)}

Variants == {"CR", "P68", "UPD"}
Direct == {"CR", "P68"}

\* what open() and a write can do: succeed, fail before the file is touched,
\* fail after open(..., 'w') truncated it
IOOutcomes == {"ok", "open_error", "write_error"}

\* description sources for the description policies: n characters, plain, or
\* after a leading blank, or with a doubled quote in front
Rep(c, n) == [k \in 1..n |-> c]

DescSources ==
    UNION {{Rep("a", n), <<" ">> \o Rep("a", n), <<"\"", "\"">> \o Rep("a", n)} :
              n \in 0..(DescLimitCR + MaxOver)}

\* "123" and "public_speaking__intro_01"
s123 == <<"1", "2", "3">>
sPublicSpeaking ==
    <<"p", "u", "b", "l", "i", "c", "_", "s", "p", "e", "a", "k", "i", "n", "g",
      "_", "_", "i", "n", "t", "r", "o", "_", "0", "1">>

\* the strings handed to detectLessonIdFormat: digits, letters, letters with the
\* delimiter, and letters after a digit, of every length around MinLongLength
LessonIdStrings ==
    UNION {{Rep("1", n), Rep("a", n), Rep("a", n) \o <<"_">>,
            <<"1">> \o Rep("a", n)} : n \in 0..(MinLongLength + MaxOver)}
    \cup {s123, sPublicSpeaking, sLongA, sLongB, sAbc, sNum}

NoText == [timestamp |-> 0, count |-> 0, mappings |-> <<>>]

Init ==
    /\ variant \in Variants
    /\ csv \in Csvs
    /\ run = 0
    /\ pc = "idle"
    /\ clock = 1
    /\ rows_read = 0
    /\ lessons = <<>>
    /\ lesson_mappings = <<>>
    /\ processed_count = 0
    /\ skipped_count = 0
    /\ parse_end = "none"
    /\ ts_content = NoText
    /\ store = [state |-> "intact", lessons |-> <<>>]
    /\ serverTs = [state |-> "intact", text |-> NoText]
    /\ clientTs = [state |-> "intact", text |-> NoText]
    /\ touched = {}
    /\ backup_result = "none"
    /\ failed_at = "none"
    /\ prev = [pc |-> "idle", touched |-> {}, store |-> store,
               serverTs |-> serverTs, clientTs |-> clientTs]
    /\ desc_policy = "none"
    /\ desc_in = <<>>
    /\ desc_out = <<>>
    /\ detect_in = <<>>
    /\ detect_out = "none"

(***************************************************************************)
(* File writes.  `with open(path, 'w') as f: f.write(...)` either replaces *)
(* the file, or fails in open() and leaves it, or fails after open()       *)
(* truncated it and leaves a partial file.                                 *)
(***************************************************************************)
WriteFile(old, new, partial, outcome) ==
    IF outcome = "ok" THEN new
    ELSE IF outcome = "open_error" THEN old
    ELSE partial

\* the files opened for writing so far, after a write of file `name`
Touch(name, outcome) ==
    IF outcome = "open_error" THEN touched ELSE touched \cup {name}

\* create_backup without its try/except: a failure propagates
create_backup_unguarded(outcome) ==
    IF outcome = "ok" THEN [raised |-> FALSE, ret |-> "ok"]
    ELSE [raised |-> TRUE, ret |-> "failed"]

\* complete-lesson-replacement.py create_backup: every exception is caught
create_backup(outcome) ==
    IF outcome = "ok" THEN [raised |-> FALSE, ret |-> "ok"]
    ELSE [raised |-> FALSE, ret |-> "failed"]

\* save_course_content merging into the document already there
save_course_content_merging(ls) ==
    [state |-> "intact", lessons |-> store.lessons \o ls]

\* complete-lesson-replacement.py save_course_content: the document written
save_course_content(ls) ==
    [state |-> "intact", lessons |-> ls]

\* process-68-lessons.py / update-lessons-from-csv.py generate_course_content:
\* the document written, sorted by id
generate_course_content_doc(ls) ==
    [state |-> "intact", lessons |-> SortByKey(ls, "id")]

\* generate_lesson_mappings: the mappings list the module text embeds; CR takes
\* the lessons in the order parse_csv_lessons sorted them, the other two sort
build_mappings(v, ls) ==
    IF v = "CR" THEN MappingsOf(ls) ELSE SortByKey(MappingsOf(ls), "shortId")

\* generate_lesson_mappings: ts_content, rendered once
render_ts_content(v, ls) ==
    [timestamp |-> clock, count |-> Len(ls), mappings |-> build_mappings(v, ls)]

\* the client copy rendered again at the time of its write
ClientWriteText_rerendered ==
    [timestamp |-> clock, count |-> Len(lessons),
     mappings |-> build_mappings(variant, lessons)]

\* the text handed to f.write for the server copy and for the client copy
ServerWriteText == ts_content
ClientWriteText == ts_content

(***************************************************************************)
(* A run of main().                                                        *)
(***************************************************************************)
StartRun ==
    /\ pc \in {"idle", "done", "aborted"}
    /\ run < MaxRuns
    /\ run' = run + 1
    /\ pc' = "main"
    \* a run starts later than every clock reading of the runs before it
    /\ clock' = 3 * run + 1
    /\ touched' = {}
    /\ rows_read' = 0
    /\ lessons' = <<>>
    /\ lesson_mappings' = <<>>
    /\ processed_count' = 0
    /\ skipped_count' = 0
    /\ parse_end' = "none"
    /\ ts_content' = NoText
    /\ backup_result' = "none"
    /\ failed_at' = "none"
    /\ prev' = [pc |-> pc, touched |-> touched, store |-> store,
                serverTs |-> serverTs, clientTs |-> clientTs]
    /\ UNCHANGED <<runVars, store, serverTs, clientTs, descVars>>

\* complete-lesson-replacement.py main, step 1
CR_create_backup ==
    /\ pc = "main" /\ variant = "CR"
    /\ \E outcome \in IOOutcomes :
           LET r == create_backup(outcome)
           IN  /\ backup_result' = r.ret
               /\ pc' = IF r.raised THEN "aborted" ELSE "open"
               /\ failed_at' = IF r.raised THEN "backup" ELSE failed_at
    /\ UNCHANGED clock
    /\ UNCHANGED <<runVars, run, parseVars, ts_content, fileVars, prev, descVars>>

\* complete-lesson-replacement.py parse_csv_lessons: open(csv_file_path)
CR_open_csv ==
    /\ pc = "open" /\ variant = "CR"
    /\ \E ok \in BOOLEAN :
           /\ pc' = IF ok THEN "rows" ELSE "aborted"
           /\ failed_at' = IF ok THEN failed_at ELSE "open_csv"
    /\ UNCHANGED clock
    /\ UNCHANGED <<runVars, run, parseVars, ts_content, fileVars, backup_result,
                   prev, descVars>>

\* complete-lesson-replacement.py parse_csv_lessons: one pass of the row loop
CR_parse_row ==
    /\ pc = "rows" /\ variant = "CR"
    /\ rows_read < Len(csv)
    /\ LET r == parse_row("CR", csv[rows_read + 1], rows_read)
       IN  IF r.kind = "lesson"
           THEN /\ lessons' = Append(lessons, r.lesson)
                /\ lesson_mappings' = Append(lesson_mappings, MappingOf(r.lesson))
                /\ processed_count' = processed_count + 1
                /\ UNCHANGED skipped_count
           ELSE /\ skipped_count' = skipped_count + 1
                /\ UNCHANGED <<lessons, lesson_mappings, processed_count>>
    /\ rows_read' = rows_read + 1
    /\ UNCHANGED clock
    /\ UNCHANGED <<runVars, run, pc, parse_end, ts_content, fileVars, backup_result,
                   failed_at, prev, descVars>>

\* complete-lesson-replacement.py parse_csv_lessons: the reader raises while
\* iterating (csv.Error, a decoding error); nothing catches it before main
CR_read_error ==
    /\ pc = "rows" /\ variant = "CR"
    /\ pc' = "aborted"
    /\ failed_at' = "read_csv"
    /\ UNCHANGED clock
    /\ UNCHANGED <<runVars, run, parseVars, ts_content, fileVars, backup_result,
                   prev, descVars>>

\* complete-lesson-replacement.py parse_csv_lessons: after the loop, the two
\* sorts, and main's test of the result
CR_parse_done ==
    /\ pc = "rows" /\ variant = "CR"
    /\ rows_read = Len(csv)
    /\ lessons' = SortByKey(lessons, "id")
    /\ lesson_mappings' = SortByKey(lesson_mappings, "shortId")
    /\ parse_end' = "eof"
    /\ pc' = IF lessons = <<>> THEN "done" ELSE "save"
    /\ UNCHANGED clock
    /\ UNCHANGED <<runVars, run, rows_read, processed_count, skipped_count, ts_content,
                   fileVars, backup_result, failed_at, prev, descVars>>

\* complete-lesson-replacement.py main, step 3
CR_save_course_content ==
    /\ pc = "save" /\ variant = "CR"
    /\ \E outcome \in IOOutcomes :
           /\ store' = WriteFile(store, save_course_content(lessons),
                                 [state |-> "partial", lessons |-> <<>>], outcome)
           /\ touched' = Touch("store", outcome)
           /\ pc' = IF outcome = "ok" THEN "generate" ELSE "aborted"
           /\ failed_at' = IF outcome = "ok" THEN failed_at ELSE "save"
    /\ UNCHANGED clock
    /\ UNCHANGED <<runVars, run, parseVars, ts_content, serverTs, clientTs,
                   backup_result, prev, descVars>>

\* process-68-lessons.py main: find_lessons_csv
P68_find_lessons_csv ==
    /\ pc = "main" /\ variant = "P68"
    /\ \E found \in BOOLEAN : pc' = IF found THEN "open" ELSE "done"
    /\ UNCHANGED clock
    /\ UNCHANGED <<runVars, run, parseVars, ts_content, fileVars, backup_result,
                   failed_at, prev, descVars>>

\* update-lessons-from-csv.py main: os.path.exists(csv_path)
UPD_check_exists ==
    /\ pc = "main" /\ variant = "UPD"
    /\ \E exists \in BOOLEAN : pc' = IF exists THEN "open" ELSE "done"
    /\ UNCHANGED clock
    /\ UNCHANGED <<runVars, run, parseVars, ts_content, fileVars, backup_result,
                   failed_at, prev, descVars>>

\* parse_lessons_csv of P68 and UPD: open(csv_path); a failure is caught and
\* the function returns [], on which main returns
parse_lessons_csv_open ==
    /\ pc = "open" /\ variant \in {"P68", "UPD"}
    /\ \E ok \in BOOLEAN :
           /\ pc' = IF ok THEN "rows" ELSE "done"
           /\ parse_end' = IF ok THEN parse_end ELSE "io_error"
    /\ UNCHANGED clock
    /\ UNCHANGED <<runVars, run, rows_read, lessons, lesson_mappings, processed_count,
                   skipped_count, ts_content, fileVars, backup_result, failed_at,
                   prev, descVars>>

\* parse_lessons_csv of P68 and UPD: one pass of the row loop; an exception of
\* the row parser leaves the loop for the except clause, which returns []
parse_lessons_csv_row ==
    /\ pc = "rows" /\ variant \in {"P68", "UPD"}
    /\ rows_read < Len(csv)
    /\ LET r == parse_row(variant, csv[rows_read + 1], rows_read)
       IN  /\ lessons' = IF r.kind = "lesson" THEN Append(lessons, r.lesson)
                         ELSE IF r.kind = "raise" THEN <<>>
                         ELSE lessons
           /\ parse_end' = IF r.kind = "raise" THEN "row_raise" ELSE parse_end
           /\ pc' = IF r.kind = "raise" THEN "done" ELSE pc
    /\ rows_read' = rows_read + 1
    /\ UNCHANGED clock
    /\ UNCHANGED <<runVars, run, lesson_mappings, processed_count, skipped_count,
                   ts_content, fileVars, backup_result, failed_at, prev, descVars>>

\* parse_lessons_csv of P68 and UPD: the reader raises while iterating
parse_lessons_csv_error ==
    /\ pc = "rows" /\ variant \in {"P68", "UPD"}
    /\ lessons' = <<>>
    /\ parse_end' = "io_error"
    /\ pc' = "done"
    /\ UNCHANGED clock
    /\ UNCHANGED <<runVars, run, rows_read, lesson_mappings, processed_count, skipped_count,
                   ts_content, fileVars, backup_result, failed_at, prev, descVars>>

\* main of P68 and UPD without its test of the parsed list
parse_lessons_csv_done_unchecked ==
    /\ pc = "rows" /\ variant \in {"P68", "UPD"}
    /\ rows_read = Len(csv)
    /\ parse_end' = "eof"
    /\ pc' = "generate"
    /\ UNCHANGED clock
    /\ UNCHANGED <<runVars, run, rows_read, lessons, lesson_mappings, processed_count,
                   skipped_count, ts_content, fileVars, backup_result, failed_at,
                   prev, descVars>>

\* parse_lessons_csv of P68 and UPD: the loop ends, and main's test of the result
parse_lessons_csv_done ==
    /\ pc = "rows" /\ variant \in {"P68", "UPD"}
    /\ rows_read = Len(csv)
    /\ parse_end' = "eof"
    /\ pc' = IF lessons = <<>> THEN "done" ELSE "generate"
    /\ UNCHANGED clock
    /\ UNCHANGED <<runVars, run, rows_read, lessons, lesson_mappings, processed_count,
                   skipped_count, ts_content, fileVars, backup_result, failed_at,
                   prev, descVars>>

\* generate_lesson_mappings: the mappings list and the module text
generate_lesson_mappings_render ==
    /\ pc = "generate"
    /\ ts_content' = render_ts_content(variant, lessons)
    /\ pc' = "write_server"
    /\ clock' = clock + 1
    /\ UNCHANGED <<runVars, run, parseVars, fileVars, backup_result, failed_at,
                   prev, descVars>>

\* generate_lesson_mappings: the write of server/lesson-mapping.ts
write_server_mapping ==
    /\ pc = "write_server"
    /\ \E outcome \in IOOutcomes :
           /\ serverTs' = WriteFile(serverTs,
                              [state |-> "intact", text |-> ServerWriteText],
                              [state |-> "partial", text |-> NoText], outcome)
           /\ touched' = Touch("server", outcome)
           /\ pc' = IF outcome = "ok" THEN "write_client" ELSE "aborted"
           /\ failed_at' = IF outcome = "ok" THEN failed_at ELSE "write_server"
    /\ clock' = clock + 1
    /\ UNCHANGED <<runVars, run, parseVars, ts_content, store, clientTs,
                   backup_result, prev, descVars>>

\* generate_lesson_mappings: the write of client/src/lib/lesson-mapping.ts, and
\* the return to main
write_client_mapping ==
    /\ pc = "write_client"
    /\ \E outcome \in IOOutcomes :
           /\ clientTs' = WriteFile(clientTs,
                              [state |-> "intact", text |-> ClientWriteText],
                              [state |-> "partial", text |-> NoText], outcome)
           /\ touched' = Touch("client", outcome)
           /\ pc' = IF outcome # "ok" THEN "aborted"
                    ELSE IF variant = "CR" THEN "done" ELSE "content"
           /\ failed_at' = IF outcome = "ok" THEN failed_at ELSE "write_client"
    /\ UNCHANGED clock
    /\ UNCHANGED <<runVars, run, parseVars, ts_content, store, serverTs,
                   backup_result, prev, descVars>>

\* generate_course_content of P68 and UPD
generate_course_content ==
    /\ pc = "content" /\ variant \in {"P68", "UPD"}
    /\ \E outcome \in IOOutcomes :
           /\ store' = WriteFile(store, generate_course_content_doc(lessons),
                                 [state |-> "partial", lessons |-> <<>>], outcome)
           /\ touched' = Touch("store", outcome)
           /\ pc' = IF outcome # "ok" THEN "aborted"
                    ELSE IF variant = "P68" THEN "summary" ELSE "done"
           /\ failed_at' = IF outcome = "ok" THEN failed_at ELSE "content"
    /\ UNCHANGED clock
    /\ UNCHANGED <<runVars, run, parseVars, ts_content, serverTs, clientTs,
                   backup_result, prev, descVars>>

\* process-68-lessons.py generate_lesson_summary: the summary file is read by
\* nothing, so only the step's success or failure is kept
generate_lesson_summary ==
    /\ pc = "summary" /\ variant = "P68"
    /\ \E outcome \in IOOutcomes :
           /\ pc' = IF outcome = "ok" THEN "done" ELSE "aborted"
           /\ failed_at' = IF outcome = "ok" THEN failed_at ELSE "summary"
    /\ UNCHANGED clock
    /\ UNCHANGED <<runVars, run, parseVars, ts_content, fileVars, backup_result,
                   prev, descVars>>

Next ==
    \/ StartRun
    \/ CR_create_backup
    \/ CR_open_csv
    \/ CR_parse_row
    \/ CR_read_error
    \/ CR_parse_done
    \/ CR_save_course_content
    \/ P68_find_lessons_csv
    \/ UPD_check_exists
    \/ parse_lessons_csv_open
    \/ parse_lessons_csv_row
    \/ parse_lessons_csv_error
    \/ parse_lessons_csv_done
    \/ generate_lesson_mappings_render
    \/ write_server_mapping
    \/ write_client_mapping
    \/ generate_course_content
    \/ generate_lesson_summary

Spec == Init /\ [][Next]_vars

(***************************************************************************)
(* The description policies on their own: one source string, one policy.   *)
(***************************************************************************)
DescInit ==
    /\ variant = "CR"
    /\ csv = <<>>
    /\ run = 0
    /\ pc = "desc"
    /\ clock = 1
    /\ rows_read = 0
    /\ lessons = <<>>
    /\ lesson_mappings = <<>>
    /\ processed_count = 0
    /\ skipped_count = 0
    /\ parse_end = "none"
    /\ ts_content = NoText
    /\ store = [state |-> "intact", lessons |-> <<>>]
    /\ serverTs = [state |-> "intact", text |-> NoText]
    /\ clientTs = [state |-> "intact", text |-> NoText]
    /\ touched = {}
    /\ backup_result = "none"
    /\ failed_at = "none"
    /\ prev = [pc |-> "idle", touched |-> {}, store |-> store,
               serverTs |-> serverTs, clientTs |-> clientTs]
    /\ desc_policy \in {"CR", "P68"}
    /\ desc_in \in DescSources
    /\ desc_out = <<>>
    /\ detect_in = <<>>
    /\ detect_out = "none"

mainVars == <<variant, csv, run, clock, rows_read, lessons, lesson_mappings,
              processed_count, skipped_count, parse_end, ts_content, store,
              serverTs, clientTs, touched, backup_result, failed_at, prev>>

\* complete-lesson-replacement.py lines 61 and 70-72
describe_CR ==
    /\ pc = "desc" /\ desc_policy = "CR"
    /\ desc_out' = truncate_description_CR(clean_text_CR(desc_in))
    /\ pc' = "desc_done"
    /\ UNCHANGED <<mainVars, desc_policy, desc_in, detect_in, detect_out>>

\* process-68-lessons.py line 106
describe_P68 ==
    /\ pc = "desc" /\ desc_policy = "P68"
    /\ desc_out' = create_description(desc_in)
    /\ pc' = "desc_done"
    /\ UNCHANGED <<mainVars, desc_policy, desc_in, detect_in, detect_out>>

DescNext ==
    \/ describe_CR
    \/ describe_P68

DescSpec == DescInit /\ [][DescNext]_vars

(***************************************************************************)
(* detectLessonIdFormat of the generated module, on its own.               *)
(***************************************************************************)
DetectInit ==
    /\ variant \in Variants
    /\ csv = <<>>
    /\ run = 0
    /\ pc = "detect"
    /\ clock = 1
    /\ rows_read = 0
    /\ lessons = <<>>
    /\ lesson_mappings = <<>>
    /\ processed_count = 0
    /\ skipped_count = 0
    /\ parse_end = "none"
    /\ ts_content = NoText
    /\ store = [state |-> "intact", lessons |-> <<>>]
    /\ serverTs = [state |-> "intact", text |-> NoText]
    /\ clientTs = [state |-> "intact", text |-> NoText]
    /\ touched = {}
    /\ backup_result = "none"
    /\ failed_at = "none"
    /\ prev = [pc |-> "idle", touched |-> {}, store |-> store,
               serverTs |-> serverTs, clientTs |-> clientTs]
    /\ desc_policy = "none"
    /\ desc_in = <<>>
    /\ desc_out = <<>>
    /\ detect_in \in LessonIdStrings
    /\ detect_out = "none"

\* a call of detectLessonIdFormat of the module the script `variant` generates
detect ==
    /\ pc = "detect"
    /\ detect_out' = detectLessonIdFormat(variant, detect_in)
    /\ pc' = "detect_done"
    /\ UNCHANGED <<mainVars, desc_policy, desc_in, desc_out, detect_in>>

DetectNext == detect

DetectSpec == DetectInit /\ [][DetectNext]_vars

(***************************************************************************)
(* Properties.                                                             *)
(***************************************************************************)
\* the outputs this run wrote in full
StoreWritten == "store" \in touched /\ store.state = "intact"
ServerWritten == "server" \in touched /\ serverTs.state = "intact"
ClientWritten == "client" \in touched /\ clientTs.state = "intact"

\* the result of the row parser on the k-th row of the CSV
RowResult(k) == parse_row(variant, csv[k], k - 1)

\* a cell that is absent, None, empty or whitespace only
MissingCell(row, col) ==
    \/ ~HasCol(row, col)
    \/ row[col] = None
    \/ Strip(row[col]) = <<>>

LongIdColumn(v) == IF v = "UPD" THEN "legacy_id" ELSE "lesson_id"

MissingTitleOrLongId(v, row) ==
    MissingCell(row, "title") \/ MissingCell(row, LongIdColumn(v))

\* C1: the lessons of a content store written by a completed run have pairwise
\* distinct ids, whatever the CSV, rows that repeat an id included.
C1_StoreIdsDistinct ==
    (pc = "done" /\ StoreWritten) =>
        \A a, b \in 1..Len(store.lessons) :
            a # b => store.lessons[a].id # store.lessons[b].id

\* C2: for every entry of the LESSON_MAPPINGS array a run emitted,
\* resolveLessonId of the decimal string of its shortId is its shortId, and
\* resolveLessonId of its longId is its shortId.
C2_ResolveRoundTrip ==
    ServerWritten =>
        LET M == LESSON_MAPPINGS(serverTs.text.mappings)
        IN  \A k \in 1..Len(M) :
                /\ resolveLessonId(variant, M, IntToStr(M[k].shortId))
                       = JsNum(M[k].shortId)
                /\ resolveLessonId(variant, M, M[k].longId) = JsNum(M[k].shortId)

\* C3: a consumed row whose title or long id is missing raised nothing out of
\* the row parser, is counted as skipped where the script counts, and has no
\* lesson in the lesson list or in the content store.
C3_MissingRowsExcluded ==
    \A k \in 1..rows_read :
        (pc # "idle" /\ MissingTitleOrLongId(variant, csv[k])) =>
            /\ ~(variant \in {"P68", "UPD"} /\ RowResult(k).kind = "raise")
            /\ \A j \in 1..Len(lessons) : lessons[j].row # k
            /\ StoreWritten => \A j \in 1..Len(store.lessons) : store.lessons[j].row # k
            /\ variant = "CR" =>
                   skipped_count >= Cardinality(
                       {m \in 1..rows_read : MissingTitleOrLongId(variant, csv[m])})

\* C4: once the row loop is over, every row the row parser accepts is in the
\* lesson list, whatever rows failed before or after it, and a finished run
\* holds every such row in the content store.
C4_OnlyFailingRowDropped ==
    parse_end \in {"eof", "row_raise"} =>
        \A k \in 1..Len(csv) :
            RowResult(k).kind = "lesson" =>
                /\ \E j \in 1..Len(lessons) : lessons[j] = RowResult(k).lesson
                /\ pc = "done" =>
                       /\ StoreWritten
                       /\ \E j \in 1..Len(store.lessons) :
                              store.lessons[j] = RowResult(k).lesson

\* C5: a run that aborted has modified neither copy of the mapping module.
C5_AbortLeavesMappingUnwritten ==
    pc = "aborted" => ("server" \notin touched /\ "client" \notin touched)

\* C6: when the generator has returned normally (its last write, the client
\* copy, succeeded in this run), the server copy was written in this run too
\* and holds the same text, timestamp included.
C6_BothCopiesIdentical ==
    ClientWritten => (ServerWritten /\ serverTs.text = clientTs.text)

C6_Witness ==
    /\ ClientWritten
    /\ run = 2
    /\ Len(clientTs.text.mappings) = 2
    /\ clientTs.text.timestamp > prev.clientTs.text.timestamp
    /\ "client" \in prev.touched

\* C7: in complete-lesson-replacement.py a failed backup step raises nothing,
\* and a run that then finishes with at least one lesson has written the
\* content store and both mapping copies from the parsed lessons.
C7_BackupFailureNotFatal ==
    (variant = "CR" /\ backup_result = "failed") =>
        /\ failed_at # "backup"
        /\ pc # "main"
        /\ (pc = "done" /\ lessons # <<>>) =>
               /\ StoreWritten /\ store.lessons = lessons
               /\ ServerWritten /\ ClientWritten
               /\ serverTs.text.mappings = MappingsOf(lessons)
               /\ clientTs.text.mappings = MappingsOf(lessons)

C7_Witness ==
    /\ variant = "CR" /\ backup_result = "failed"
    /\ pc = "done"
    /\ StoreWritten /\ ClientWritten
    /\ Len(store.lessons) = 2

\* a run of a Direct script that finished with all its outputs written, after a
\* previous run that did the same
RerunCompleted ==
    /\ variant \in Direct
    /\ run >= 2 /\ pc = "done"
    /\ StoreWritten /\ ServerWritten /\ ClientWritten
    /\ prev.pc = "done"
    /\ prev.touched = {"store", "server", "client"}
    /\ prev.store.state = "intact"
    /\ prev.serverTs.state = "intact"
    /\ prev.clientTs.state = "intact"

\* C8: under the Direct policy a second completed run over the same CSV leaves
\* the same lessons in the same order in the content store, and the same
\* mapping entries in the same order in the mapping module, as the run before.
C8_RerunSameOutput ==
    RerunCompleted =>
        /\ store.lessons = prev.store.lessons
        /\ serverTs.text.mappings = prev.serverTs.text.mappings
        /\ serverTs.text.count = prev.serverTs.text.count
        /\ clientTs.text.mappings = prev.clientTs.text.mappings

C8_Witness ==
    /\ RerunCompleted
    /\ Len(store.lessons) = 2
    /\ store.lessons[1].id = store.lessons[2].id
    /\ store.lessons[1].longId # store.lessons[2].longId

\* C9 as claimed: under the Sequential policy, once the row loop is over (and
\* before any output is written) the accepted rows carry the ids 1..n in order,
\* n the number of accepted rows.
C9_IdsAreOrdinalsOfAccepted ==
    (variant = "UPD" /\ parse_end = "eof" /\ touched = {}) =>
        \A j \in 1..Len(lessons) : lessons[j].id = j

\* C9 as amended: under the Sequential policy the id of an accepted row is its
\* 1-based position among all the data rows of the CSV, skipped rows included:
\* the ids increase in row order, and every accepted row is there under its
\* position.
C9_IdsAreRowPositions ==
    (variant = "UPD" /\ parse_end = "eof" /\ touched = {}) =>
        /\ \A j \in 1..Len(lessons) :
               /\ lessons[j].id \in 1..Len(csv)
               /\ parse_lesson_row_UPD(csv[lessons[j].id], lessons[j].id)
                      = Accepted(lessons[j])
        /\ \A j \in 1..(Len(lessons) - 1) : lessons[j].id < lessons[j + 1].id
        /\ Len(lessons) = Cardinality(
               {k \in 1..Len(csv) :
                    parse_lesson_row_UPD(csv[k], k).kind = "lesson"})

C9_Witness ==
    /\ variant = "UPD" /\ parse_end = "eof" /\ touched = {}
    /\ Len(lessons) = 1
    /\ lessons[1].id = 2

\* the normalized description source of a policy
NormalizedSource(policy, s) ==
    IF policy = "CR" THEN clean_text_CR(s) ELSE clean_text_P68(s)

\* C10: under the 300-character policies a source whose normalized length
\* exceeds 300 gives a description of exactly 300 characters ending in "...",
\* and a shorter one gives the normalized text unchanged.
C10_TruncatedTo300 ==
    pc = "desc_done" =>
        LET norm == NormalizedSource(desc_policy, desc_in)
        IN  IF Len(norm) > 300
            THEN /\ Len(desc_out) = 300
                 /\ SubSeq(desc_out, 298, 300) = <<".", ".", ".">>
            ELSE desc_out = norm

\* C11: in the module of every script detectLessonIdFormat answers short for a
\* string of decimal digits only, long for any other string that holds "_" or
\* is longer than 10 characters, and invalid otherwise; "123" is short,
\* "public_speaking__intro_01" is long and the empty string is invalid.
C11_DetectClassifies ==
    pc = "detect_done" =>
        /\ detect_out =
               IF AllDigits(detect_in) THEN "short"
               ELSE IF Contains(detect_in, <<"_">>) \/ Len(detect_in) > 10
                    THEN "long"
               ELSE "invalid"
        /\ (detect_in = s123 => detect_out = "short")
        /\ (detect_in = sPublicSpeaking => detect_out = "long")
        /\ (detect_in = <<>> => detect_out = "invalid")

\* C12: the lessons of a content store a run wrote are in ascending order of
\* id, and the LESSON_MAPPINGS array of a mapping copy a run wrote is in
\* ascending order of shortId, whatever the order of the rows.
C12_OutputsSorted ==
    /\ StoreWritten =>
           \A j \in 1..(Len(store.lessons) - 1) :
               store.lessons[j].id <= store.lessons[j + 1].id
    /\ ServerWritten =>
           \A j \in 1..(Len(serverTs.text.mappings) - 1) :
               serverTs.text.mappings[j].shortId
                   <= serverTs.text.mappings[j + 1].shortId
    /\ ClientWritten =>
           \A j \in 1..(Len(clientTs.text.mappings) - 1) :
               clientTs.text.mappings[j].shortId
                   <= clientTs.text.mappings[j + 1].shortId

\* a Direct run whose CSV held the larger id first has written all its outputs
C12_Witness ==
    /\ variant \in Direct /\ pc = "done"
    /\ StoreWritten /\ ServerWritten /\ ClientWritten
    /\ Len(store.lessons) = 2
    /\ store.lessons[1].row = 2 /\ store.lessons[2].row = 1
    /\ store.lessons[1].id < store.lessons[2].id
    /\ clientTs.text.mappings[1].shortId < clientTs.text.mappings[2].shortId

\* a Direct run that finished with all its outputs written
DirectRunCompleted ==
    /\ variant \in Direct /\ pc = "done"
    /\ StoreWritten /\ ServerWritten /\ ClientWritten

C14_EmptyContentExcluded ==
    /\ \A k \in 1..rows_read :
           MissingCell(csv[k], "text") =>
               ~\E j \in 1..Len(lessons) : lessons[j].row = k
    /\ StoreWritten =>
           \A j \in 1..Len(store.lessons) : store.lessons[j].content # <<>>

\* a run that has ended with no row accepted
EndedWithoutLessons == run >= 1 /\ pc = "done" /\ lessons = <<>>

\* the content store and both mapping copies are as the run found them
OutputsUntouched ==
    /\ touched = {}
    /\ store = prev.store
    /\ serverTs = prev.serverTs
    /\ clientTs = prev.clientTs

\* C15 as claimed: a run in which no row is accepted ends without having
\* written any file: the content store and both mapping copies are as before,
\* and no other output was written either.
C15_NothingWritten ==
    EndedWithoutLessons => (OutputsUntouched /\ backup_result # "ok")

\* C15 as amended: a run in which no row is accepted ends with the content
\* store and both mapping copies exactly as they were before the run (in
\* complete-lesson-replacement.py the backup file may have been written).
C15_OutputsLeftAsBefore ==
    EndedWithoutLessons => OutputsUntouched

\* a second run that read rows, lost them to a read error and ended, after a
\* first run that wrote its outputs
C15_Witness ==
    /\ EndedWithoutLessons
    /\ run = 2 /\ rows_read >= 1
    /\ OutputsUntouched
    /\ Len(store.lessons) >= 1
    /\ serverTs.text.count >= 1 /\ clientTs.text.count >= 1

====
